---- MODULE Spec2Model ----
(***************************************************************************)
(* WS2812 LED driver (ws2812.c): the pixel write path, the frame buffer,  *)
(* the DMA transfer lifecycle (map, submit, completion callback, unmap),  *)
(* and device attach / teardown.                                          *)
(*                                                                         *)
(* Calls of the write handler are taken one at a time; the DMA engine's   *)
(* completion is asynchronous to them.  Buffers are sequences of bytes,   *)
(* byte offset o of the C buffer being element o + 1.                     *)
(*                                                                         *)
(* Spec takes ws2812_probe as one step; ProbeSpec takes it statement by   *)
(* statement, with callers of the character device running in between;    *)
(* GammaSpec and EncSpec apply gamma_, led_encode and the two frame        *)
(* builders to arguments drawn at the start.                               *)
(***************************************************************************)
EXTENDS Integers, Sequences, FiniteSets, TLC

(* ---------------------------- bounds ---------------------------------- *)
\* largest rpi,num_leds value explored
MaxLeds == 1
\* longest strip for which whole frames are built on their own
MaxFrameLeds == 3
\* cap on bus-address mappings outstanding at once; every queued descriptor
\* holds one, so it caps the channel's queue as well
MaxMapped == 2

(* ------------------------- program constants -------------------------- *)
BYTES_PER_LED == 12
RESET_BYTES == (50 * 24) \div 80
EFAULT == 14

\* caller byte counts explored: nothing, and k words plus three odd bytes
\* up to one pixel more than any strip holds
Counts == {0} \cup {4 * k + 3 : k \in 0 .. MaxLeds + 1}
\* RGB32 words a caller writes: 0x112233, whose three channels differ and
\* encode to a frame unlike the cleared one
Pixels == {1122867}
\* bus addresses the platform can hand out; 0 is what issue_dma takes as failure
Addrs == {1, 2}
AddrOrZero == {0} \cup Addrs
\* content of kmalloc'ed memory that was never written
Uninit == -1

Min(a, b) == IF a < b THEN a ELSE b

(* --------------------------- gamma table ------------------------------ *)
GammaE ==
    << 0, 0, 0, 0, 0, 0, 0, 0, 0, 0, 0, 0, 0, 0, 0, 0,
       0, 0, 0, 0, 0, 0, 1, 1, 1, 1, 1, 1, 1, 2, 2, 2,
       2, 2, 2, 3, 3, 3, 3, 3, 4, 4, 4, 4, 5, 5, 5, 5,
       6, 6, 6, 7, 7, 7, 8, 8, 8, 9, 9, 9, 10, 10, 11, 11,
       11, 12, 12, 13, 13, 13, 14, 14, 15, 15, 16, 16, 17, 17, 18, 18,
       19, 19, 20, 21, 21, 22, 22, 23, 23, 24, 25, 25, 26, 27, 27, 28,
       29, 29, 30, 31, 31, 32, 33, 34, 34, 35, 36, 37, 37, 38, 39, 40,
       40, 41, 42, 43, 44, 45, 46, 46, 47, 48, 49, 50, 51, 52, 53, 54,
       55, 56, 57, 58, 59, 60, 61, 62, 63, 64, 65, 66, 67, 68, 69, 70,
       71, 72, 73, 74, 76, 77, 78, 79, 80, 81, 83, 84, 85, 86, 88, 89,
       90, 91, 93, 94, 95, 96, 98, 99, 100, 102, 103, 104, 106, 107, 109, 110,
       111, 113, 114, 116, 117, 119, 120, 121, 123, 124, 126, 128, 129, 131, 132, 134,
       135, 137, 138, 140, 142, 143, 145, 146, 148, 150, 151, 153, 155, 157, 158, 160,
       162, 163, 165, 167, 169, 170, 172, 174, 176, 178, 179, 181, 183, 185, 187, 189,
       191, 193, 194, 196, 198, 200, 202, 204, 206, 208, 210, 212, 214, 216, 218, 220,
       222, 224, 227, 229, 231, 233, 235, 237, 239, 241, 244, 246, 248, 250, 252, 255 >>

\* mutant of GammaIndex: the channel value is not scaled by the brightness
GammaIndex_unscaled(brightness_, val) == val

\* mutant of gamma_: the remainder is taken for the quotient
gamma_mod(brightness_, val) == GammaE[((val * brightness_) % 255) + 1]

\* bright = (bright * brightness) / 255, the index into GammaE
GammaIndex(brightness_, val) == (val * brightness_) \div 255

\* gamma_: scale by brightness (truncating division), then look up
gamma_(brightness_, val) == GammaE[GammaIndex(brightness_, val) + 1]

(* ---------------------------- encoder --------------------------------- *)
\* the switch of led_encode: two protocol bits to one output byte
NibblePair(two) ==
    CASE two = 0 -> 136     \* 0x88
      [] two = 1 -> 142     \* 0x8e
      [] two = 2 -> 232     \* 0xe8
      [] two = 3 -> 238     \* 0xee

\* mutant of Rearrange: the channels are packed in the order of the input word
Rearrange_rgb(brightness_, rgb) ==
    LET blu == gamma_(brightness_, rgb % 256)
        grn == gamma_(brightness_, (rgb \div 256) % 256)
        red == gamma_(brightness_, (rgb \div 65536) % 256)
    IN  blu + grn * 256 + red * 65536

\* int rearrange = red + (blu << 8) + (grn << 16)
Rearrange(brightness_, rgb) ==
    LET red == gamma_(brightness_, (rgb \div 256) % 256)
        blu == gamma_(brightness_, rgb % 256)
        grn == gamma_(brightness_, (rgb \div 65536) % 256)
    IN  red + blu * 256 + grn * 65536

\* the for loop of led_encode: i counts the iterations left, cur is buf
RECURSIVE EncodeLoop(_, _, _, _)
EncodeLoop(rearrange, i, buf, cur) ==
    IF i = 0 THEN [buf |-> buf, cur |-> cur]
    ELSE EncodeLoop(rearrange \div 4, i - 1,
                    [buf EXCEPT ![cur + 1] = NibblePair(rearrange % 4)], cur + 1)

\* mutant of led_encode: the loop runs from 10 down to 0
led_encode_eleven(brightness_, rgb, buf, cur) ==
    EncodeLoop(Rearrange(brightness_, rgb), 11, buf, cur)

\* led_encode: writes at the cursor and returns the advanced cursor
led_encode(brightness_, rgb, buf, cur) ==
    EncodeLoop(Rearrange(brightness_, rgb), 12, buf, cur)

\* memset(p, val, len) on the frame buffer at byte offset off
memset(buf, off, val, len) ==
    [i \in 1 .. Len(buf) |-> IF i > off /\ i <= off + len THEN val ELSE buf[i]]

(* ----------------------------- state ----------------------------------- *)
VARIABLES
    phase,      \* "unbound", "live" (probe returned 0), "failed", "removed"
    held,       \* per resource: times acquired minus times released
    num_leds,   \* state->num_leds
    brightness, \* state->brightness
    pixbuf,     \* state->pixbuf, the staging area, one word per LED
    buffer,     \* state->buffer, the frame buffer, one byte per element
    dma_addr,   \* state->dma_addr
    mappings,   \* per bus address: mappings established and not yet released
    inflight,   \* descriptors submitted to the channel, oldest first
    last,       \* the last operation: its inputs, its result, what it handed out
    call,       \* a function taken on its own: its name and its arguments
    result,     \* what that function returned, once it was applied
    ppc         \* ProbeSteps executed by a ws2812_probe taken statement by statement

devVars == <<phase, held, num_leds, brightness, pixbuf, buffer, dma_addr,
             mappings, inflight, last>>

vars == <<phase, held, num_leds, brightness, pixbuf, buffer, dma_addr,
          mappings, inflight, last, call, result, ppc>>

Resources ==
    {"state", "chrdev", "class", "device", "cdev", "pixbuf", "buffer", "dma_chan"}

\* no function taken on its own
NoCall == [fn |-> "none", brightness |-> 0, arg |-> 0, cur |-> 0]
NoResult == [done |-> FALSE, index |-> 0, val |-> 0, buf |-> <<>>, cur |-> 0]

NoOp ==
    [op |-> "none", count |-> 0, left |-> 0, ret |-> 0, issue |-> "none", length |-> 0,
     uAddr |-> 0, uLen |-> 0, tAddr |-> 0, tLen |-> 0, freed |-> FALSE,
     pixEnd |-> 0, bufEnd |-> 0]

\* number of mappings outstanding over all bus addresses
RECURSIVE SumOver(_, _)
SumOver(f, S) ==
    IF S = {} THEN 0
    ELSE LET a == CHOOSE x \in S : TRUE IN f[a] + SumOver(f, S \ {a})

MapTotal == SumOver(mappings, Addrs)

\* no descriptor on the channel and no mapping outstanding
Idle == inflight = <<>> /\ MapTotal = 0

\* the device before ws2812_probe
DevInit ==
    /\ phase = "unbound"
    /\ held = [r \in Resources |-> 0]
    /\ num_leds = 0
    /\ brightness = 0
    /\ pixbuf = <<>>
    /\ buffer = <<>>
    /\ dma_addr = 0
    /\ mappings = [a \in Addrs |-> 0]
    /\ inflight = <<>>
    /\ last = NoOp

Init ==
    /\ DevInit
    /\ call = NoCall
    /\ result = NoResult
    /\ ppc = 0

(* ------------------------- DMA transfer manager ----------------------- *)
\* dma_map_single: a nonzero handle is a mapping established
dma_map_single(m, handle) ==
    IF handle \in Addrs THEN [m EXCEPT ![handle] = @ + 1] ELSE m

\* dma_unmap_single: releases a mapping held at that bus address, if any
dma_unmap_single(m, handle) ==
    IF handle \in Addrs /\ m[handle] > 0 THEN [m EXCEPT ![handle] = @ - 1] ELSE m

\* mutant of map_failed: the test of the handle is missing
map_failed_never(handle) == FALSE

\* if(state->dma_addr == 0)
map_failed(handle) == handle = 0

\* if(desc == NULL)
prep_failed(prepOK) == ~prepOK

\* which return of issue_dma is taken
IssueOutcome(mapRes, prepOK) ==
    IF map_failed(mapRes) THEN "map_failed"
    ELSE IF prep_failed(prepOK) THEN "prep_failed"
    ELSE "submitted"

\* the mappings issue_dma leaves behind: no path of it unmaps
IssueMappings(m, mapRes, prepOK) == dma_map_single(m, mapRes)

\* issue_dma's return value
issue_rc(mapRes, prepOK) ==
    IF IssueOutcome(mapRes, prepOK) = "submitted" THEN 0 ELSE -1

\* issue_dma(state, state->buffer, length)
issue_dma(length, mapRes, prepOK) ==
    /\ dma_addr' = mapRes
    /\ mappings' = IssueMappings(mappings, mapRes, prepOK)
    /\ inflight' =
         IF IssueOutcome(mapRes, prepOK) = "submitted"
         THEN Append(inflight, [addr |-> mapRes, len |-> length])
         ELSE inflight

\* the length ws2812_callback passes to dma_unmap_single
CallbackUnmapLen(n) == n * BYTES_PER_LED

\* hardware completion of the oldest descriptor, then ws2812_callback.
\* After ws2812_remove the callback reads state->dma_addr and
\* state->num_leds from freed memory: any value.  Before it, the state
\* exists from the first statements of probe on.
DmaComplete ==
    /\ inflight # <<>>
    /\ \E a \in AddrOrZero, n \in 0 .. MaxLeds :
         /\ phase # "removed" => (a = dma_addr /\ n = num_leds)
         /\ mappings' = dma_unmap_single(mappings, a)
         /\ last' = [NoOp EXCEPT !.op = "callback",
                       !.uAddr = a, !.uLen = CallbackUnmapLen(n),
                       !.tAddr = Head(inflight).addr,
                       !.tLen = Head(inflight).len,
                       !.freed = (phase = "removed")]
    /\ inflight' = Tail(inflight)
    /\ UNCHANGED <<phase, held, num_leds, brightness, pixbuf, buffer, dma_addr>>
    /\ UNCHANGED <<call, result, ppc>>

(* ------------------------- frame buffer ------------------------------- *)
\* mutant of BufferSize: no room for the reset gap
BufferSize_short(n) == n * BYTES_PER_LED

\* state->buffer = kmalloc(state->num_leds * BYTES_PER_LED + RESET_BYTES)
BufferSize(n) == n * BYTES_PER_LED + RESET_BYTES

\* mutant of ClearFrame: the second fill loop is missing
ClearFrame_noreset(n) ==
    [i \in 1 .. BufferSize(n) |->
        IF i <= n * BYTES_PER_LED THEN 136 ELSE Uninit]

\* the length clear_leds passes to issue_dma
ClearLength(n) == n * BYTES_PER_LED + RESET_BYTES

\* clear_leds' two fill loops on the buffer probe allocated
ClearFrame(n) ==
    [i \in 1 .. BufferSize(n) |->
        IF i <= n * BYTES_PER_LED THEN 136
        ELSE IF i <= n * BYTES_PER_LED + RESET_BYTES THEN 0
        ELSE Uninit]

\* mutant of AcceptedLeds: the byte count is taken for a word count
AcceptedLeds_nodiv(count, n) == Min(count, n)

\* num_leds = min(count/4, state->num_leds)
AcceptedLeds(count, n) == Min(count \div 4, n)

\* copy_from_user: bytes left uncopied when only `copied` words were readable
copy_from_user(n, copied) == (n - copied) * 4

\* bytes of the staging area copy_from_user may write: num_leds * 4
StagedBytes(n) == n * 4

\* bytes of the frame buffer written when the fill ends at byte offset cur:
\* the encoded pixels, then the RESET_BYTES of the memset or second loop
FilledBytes(cur) == cur + RESET_BYTES

\* mutant of copy_failed: copy_from_user's result is ignored
copy_failed_never(left) == FALSE

\* if(copy_from_user(...)) return -EFAULT
copy_failed(left) == left # 0

\* the staging area after copy_from_user: the readable words, then zero padding
CopyIn(pix, data, n, copied) ==
    [i \in 1 .. Len(pix) |->
        IF i <= copied THEN data[i] ELSE IF i <= n THEN 0 ELSE pix[i]]

\* the encode loop of ws2812_write over the first n staged words
RECURSIVE EncodeFrame(_, _, _, _, _, _)
EncodeFrame(pix, i, n, brightness_, buf, cur) ==
    IF i > n THEN [buf |-> buf, cur |-> cur]
    ELSE LET e == led_encode(brightness_, pix[i], buf, cur)
         IN  EncodeFrame(pix, i + 1, n, brightness_, e.buf, e.cur)

\* mutant of FillReset: the reset gap is not zero-filled
FillReset_none(buf, cur) == buf

\* memset(p_buffer, 0x00, RESET_BYTES)
FillReset(buf, cur) == memset(buf, cur, 0, RESET_BYTES)

\* length = (int) p_buffer - (int) state->buffer + RESET_BYTES
FrameLength(cur) == cur - 0 + RESET_BYTES

\* mutant of WriteReturn: a failing issue_dma is passed on to the caller
WriteReturn_rc(count, rc) == IF rc < 0 THEN rc ELSE count

\* ws2812_write's return value once the copy-in succeeded
WriteReturn(count, rc) == count

(* ------------------------- pixel stream interface --------------------- *)
\* ws2812_write(filp, buf, count, pos): data are the caller's words, of
\* which only the first `copied` can be read
ws2812_write_body(count, data, copied, mapRes, prepOK) ==
    LET n    == AcceptedLeds(count, num_leds)
        left == copy_from_user(n, copied)
    IN  /\ pixbuf' = CopyIn(pixbuf, data, n, copied)
        /\ IF copy_failed(left)
           THEN /\ UNCHANGED <<buffer, dma_addr, mappings, inflight>>
                /\ last' = [NoOp EXCEPT !.op = "write", !.count = count,
                              !.left = left, !.ret = -EFAULT,
                              !.pixEnd = StagedBytes(n)]
           ELSE \E enc \in {EncodeFrame(pixbuf', 1, n, brightness, buffer, 0)} :
                /\ buffer' = FillReset(enc.buf, enc.cur)
                /\ issue_dma(FrameLength(enc.cur), mapRes, prepOK)
                /\ last' = [NoOp EXCEPT !.op = "write", !.count = count,
                              !.left = left,
                              !.ret = WriteReturn(count, issue_rc(mapRes, prepOK)),
                              !.issue = IssueOutcome(mapRes, prepOK),
                              !.length = FrameLength(enc.cur),
                              !.pixEnd = StagedBytes(n),
                              !.bufEnd = FilledBytes(enc.cur)]
        /\ UNCHANGED <<phase, held, num_leds, brightness>>

\* the handler as a caller of the attached device reaches it
ws2812_write(count, data, copied, mapRes, prepOK) ==
    /\ phase = "live"
    /\ ws2812_write_body(count, data, copied, mapRes, prepOK)

(* --------------------------- attach / teardown ------------------------ *)
\* clear_leds(state): fill the whole frame, then issue_dma on all of it
clear_leds(n, mapRes, prepOK) ==
    /\ buffer' = ClearFrame(n)
    /\ issue_dma(ClearLength(n), mapRes, prepOK)

\* the places ws2812_probe can fail, in program order
ProbeFailPoints ==
    <<"node", "state", "chrdev", "class", "device", "cdev", "pixbuf",
      "of_address", "ioremap", "buffer", "dma_chan">>

\* what probe has acquired when it fails at a point
Acquired(failAt) ==
    CASE failAt \in {"node", "state"} -> {}
      [] failAt = "chrdev" -> {"state"}
      [] failAt = "class"  -> {"state", "chrdev"}
      [] failAt = "device" -> {"state", "chrdev", "class"}
      [] failAt = "cdev"   -> {"state", "chrdev", "class", "device"}
      [] failAt = "pixbuf" -> {"state", "chrdev", "class", "device", "cdev"}
      [] failAt \in {"of_address", "ioremap", "buffer"} ->
           {"state", "chrdev", "class", "device", "cdev", "pixbuf"}
      [] failAt = "dma_chan" ->
           {"state", "chrdev", "class", "device", "cdev", "pixbuf", "buffer"}

\* releases made inside the failing branch, before its goto
InlineReleases(failAt) ==
    CASE failAt = "class"  -> <<"chrdev">>
      [] failAt = "device" -> <<"class", "chrdev">>
      [] OTHER -> <<>>

\* the label each failing branch jumps to
GotoLabel(failAt) ==
    CASE failAt \in {"node", "state"} -> "fail"
      [] failAt = "chrdev" -> "fail_malloc"
      [] failAt = "class"  -> "fail_chrdev"
      [] failAt = "device" -> "fail_class"
      [] failAt = "cdev"   -> "fail_device"
      [] failAt = "pixbuf" -> "fail_cdev"
      [] failAt \in {"of_address", "ioremap", "buffer"} -> "fail_pixbuf"
      [] failAt = "dma_chan" -> "fail_buffer"

\* the chain of labels at the end of probe: each falls through to the next
Unwind ==
    << [label |-> "fail_dma_init", rel |-> "dma_chan"],
       [label |-> "fail_buffer",   rel |-> "buffer"],
       [label |-> "fail_pixbuf",   rel |-> "pixbuf"],
       [label |-> "fail_cdev",     rel |-> "cdev"],
       [label |-> "fail_device",   rel |-> "device"],
       [label |-> "fail_class",    rel |-> "class"],
       [label |-> "fail_chrdev",   rel |-> "chrdev"],
       [label |-> "fail_malloc",   rel |-> "state"],
       [label |-> "fail",          rel |-> "nothing"] >>

LabelIndex(l) == CHOOSE i \in 1 .. Len(Unwind) : Unwind[i].label = l

\* the releases executed from a label down to the return
UnwindFrom(l) ==
    [i \in 1 .. (Len(Unwind) - LabelIndex(l) + 1) |->
        Unwind[LabelIndex(l) + i - 1].rel]

\* how often r occurs in a sequence of releases
Occurrences(seq, r) == Cardinality({i \in 1 .. Len(seq) : seq[i] = r})

\* ws2812_probe(pdev); failAt = "none" is the path that returns 0
ws2812_probe(n, failAt, mapRes, prepOK) ==
    /\ phase = "unbound"
    /\ IF failAt = "none"
       THEN /\ phase' = "live"
            /\ held' = [r \in Resources |-> 1]
            /\ num_leds' = n
            /\ brightness' = 255
            /\ pixbuf' = [i \in 1 .. n |-> Uninit]
            /\ clear_leds(n, mapRes, prepOK)
            /\ last' = [NoOp EXCEPT !.op = "probe", !.ret = 0,
                          !.issue = IssueOutcome(mapRes, prepOK),
                          !.length = n * BYTES_PER_LED + RESET_BYTES,
                          !.bufEnd = FilledBytes(n * BYTES_PER_LED)]
       ELSE /\ phase' = "failed"
            /\ held' =
                 [r \in Resources |->
                    (IF r \in Acquired(failAt) THEN 1 ELSE 0)
                    - Occurrences(InlineReleases(failAt)
                                  \o UnwindFrom(GotoLabel(failAt)), r)]
            /\ last' = [NoOp EXCEPT !.op = "probe", !.ret = -1]
            /\ UNCHANGED <<num_leds, brightness, pixbuf, buffer, dma_addr,
                           mappings, inflight>>

\* ws2812_remove(pdev): releases the channel and frees, without waiting
ws2812_remove ==
    /\ phase = "live"
    /\ phase' = "removed"
    /\ held' = [r \in Resources |-> held[r] - 1]
    /\ last' = [NoOp EXCEPT !.op = "remove"]
    /\ UNCHANGED <<num_leds, brightness, pixbuf, buffer, dma_addr, mappings,
                   inflight>>

(* --------------------------- specification ---------------------------- *)
\* the model's cap on what one more issue_dma may add
CapOK(mapRes) == mapRes \in Addrs => MapTotal < MaxMapped

\* what dma_map_single returns and whether dmaengine_prep_slave_single
\* would hand out a descriptor
DmaOutcomes == {<<0, TRUE>>} \cup (Addrs \X BOOLEAN)

Probe ==
    /\ \/ \E n \in 1 .. MaxLeds, o \in DmaOutcomes :
            ws2812_probe(n, "none", o[1], o[2])
       \/ \E failAt \in {ProbeFailPoints[i] : i \in 1 .. Len(ProbeFailPoints)} :
            ws2812_probe(1, failAt, 0, FALSE)
    /\ UNCHANGED <<call, result, ppc>>

\* a write whose caller memory is readable only up to `copied` words, and a
\* write whose caller memory is readable
Write ==
    /\ \E count \in Counts :
         LET n == AcceptedLeds(count, num_leds)
         IN  \/ \E copied \in 0 .. n - 1 :
                  \E data \in [1 .. copied -> Pixels] :
                    ws2812_write(count, data, copied, 0, FALSE)
             \/ \E data \in [1 .. n -> Pixels], o \in DmaOutcomes :
                  /\ CapOK(o[1])
                  /\ ws2812_write(count, data, n, o[1], o[2])
    /\ UNCHANGED <<call, result, ppc>>

Remove == ws2812_remove /\ UNCHANGED <<call, result, ppc>>

Next == Probe \/ Write \/ DmaComplete \/ Remove

Spec == Init /\ [][Next]_vars

(* ------------- ws2812_probe taken statement by statement -------------- *)
\* the statements of the path of ws2812_probe that returns 0, in program
\* order; cdev_add makes ws2812_fops callable
ProbeSteps ==
    <<"state", "chrdev", "class", "device", "cdev", "of_props", "pixbuf",
      "ioremap", "buffer", "dma_chan", "slave_config", "pwm_init", "led_en",
      "clear_leds">>

\* the position of a statement in ProbeSteps
StepIndex(s) == CHOOSE i \in 1 .. Len(ProbeSteps) : ProbeSteps[i] = s

\* that statement has been executed
StepDone(s) == ppc >= StepIndex(s)

\* the next statement of ws2812_probe
ProbeStep ==
    /\ phase = "unbound" /\ ppc < Len(ProbeSteps)
    /\ ppc' = ppc + 1
    /\ LET s == ProbeSteps[ppc + 1]
       IN  /\ held' = IF s \in Resources THEN [held EXCEPT ![s] = 1] ELSE held
           /\ brightness' = IF s = "state" THEN 255 ELSE brightness
           /\ IF s = "of_props"
              THEN \E n \in 1 .. MaxLeds : num_leds' = n
              ELSE num_leds' = num_leds
           /\ pixbuf' = IF s = "pixbuf" THEN [i \in 1 .. num_leds |-> Uninit]
                        ELSE pixbuf
           /\ IF s = "clear_leds"
              THEN \E o \in DmaOutcomes :
                     /\ CapOK(o[1])
                     /\ clear_leds(num_leds, o[1], o[2])
                     /\ phase' = "live"
                     /\ last' = [NoOp EXCEPT !.op = "probe", !.ret = 0,
                                   !.issue = IssueOutcome(o[1], o[2]),
                                   !.length = num_leds * BYTES_PER_LED + RESET_BYTES,
                                   !.bufEnd = FilledBytes(num_leds * BYTES_PER_LED)]
              ELSE /\ buffer' = IF s = "buffer"
                                 THEN [i \in 1 .. BufferSize(num_leds) |-> Uninit]
                                 ELSE buffer
                   /\ UNCHANGED <<phase, dma_addr, mappings, inflight, last>>
    /\ UNCHANGED <<call, result>>

\* ws2812_open then ws2812_write by a caller while probe has not returned:
\* possible from cdev_add on.  Until state->dma_chan is set the handler
\* works through pointers probe has not stored yet, and anything may come
\* of it; the model lets it fault or return, keeps the device as it is and
\* records how many bytes the handler stores through state->pixbuf and
\* state->buffer, for the num_leds the state holds by then.
EarlyWrite ==
    /\ phase = "unbound" /\ StepDone("cdev")
    /\ \E count \in Counts :
         IF StepDone("dma_chan")
         THEN \E data \in [1 .. AcceptedLeds(count, num_leds) -> Pixels],
                 o \in DmaOutcomes :
                /\ CapOK(o[1])
                /\ ws2812_write_body(count, data,
                                     AcceptedLeds(count, num_leds), o[1], o[2])
         ELSE /\ \E ret \in {count, -EFAULT} :
                   last' = [NoOp EXCEPT !.op = "write", !.count = count,
                              !.ret = ret,
                              !.pixEnd = StagedBytes(AcceptedLeds(count, num_leds)),
                              !.bufEnd = FilledBytes(AcceptedLeds(count, num_leds)
                                                      * BYTES_PER_LED)]
              /\ UNCHANGED <<phase, held, num_leds, brightness, pixbuf, buffer,
                             dma_addr, mappings, inflight>>
    /\ UNCHANGED <<call, result, ppc>>

ProbeNext == ProbeStep \/ EarlyWrite \/ Write \/ DmaComplete \/ Remove

ProbeSpec == Init /\ [][ProbeNext]_vars

(* ------------------- gamma_ taken on its own --------------------------- *)
GammaInit ==
    /\ DevInit
    /\ call \in {[fn |-> "gamma_", brightness |-> b, arg |-> c, cur |-> 0] :
                   b \in 0 .. 255, c \in 0 .. 255}
    /\ result = NoResult
    /\ ppc = 0

\* gamma_(state->brightness, val)
Gamma ==
    /\ call.fn = "gamma_" /\ ~result.done
    /\ result' = [NoResult EXCEPT !.done = TRUE,
                     !.index = GammaIndex(call.brightness, call.arg),
                     !.val = gamma_(call.brightness, call.arg)]
    /\ UNCHANGED <<devVars, call, ppc>>

GammaNext == Gamma

GammaSpec == GammaInit /\ [][GammaNext]_vars

(* ------------------- the encoder taken on its own ---------------------- *)
\* what an unsigned char holds
Byte == 0 .. 255
\* channel values explored: dark, mid-scale and full
ChannelSamples == {0, 90, 255}
\* top bytes explored for a pixel word, 0x00 and 0xFF, as they weigh in the
\* int that led_encode takes; led_encode does not read that byte
TopSamples == {0, -1}
\* the pixel words explored
PixelWords ==
    {t * 16777216 + g * 65536 + r * 256 + b :
        t \in TopSamples, g \in ChannelSamples, r \in ChannelSamples,
        b \in ChannelSamples}
\* frame buffer of a two-LED strip as kmalloc leaves it
BlankFrame == [i \in 1 .. (2 * BYTES_PER_LED + RESET_BYTES) |-> Uninit]

EncInit ==
    /\ DevInit
    /\ call \in {[fn |-> "led_encode", brightness |-> b, arg |-> p, cur |-> c] :
                   b \in Byte, p \in PixelWords, c \in {0, BYTES_PER_LED}}
               \cup {[fn |-> f, brightness |-> b, arg |-> n, cur |-> 0] :
                       f \in {"clear_leds", "ws2812_write"}, b \in Byte,
                       n \in 1 .. MaxFrameLeds}
    /\ result = NoResult
    /\ ppc = 0

\* p_buffer = led_encode(state, rgb, p_buffer)
Encode ==
    /\ call.fn = "led_encode" /\ ~result.done
    /\ \E e \in {led_encode(call.brightness, call.arg, BlankFrame, call.cur)} :
         result' = [NoResult EXCEPT !.done = TRUE, !.buf = e.buf, !.cur = e.cur]
    /\ UNCHANGED <<devVars, call, ppc>>

\* the frame and the length clear_leds hands to issue_dma, for a strip of
\* call.arg LEDs
ClearAll ==
    /\ call.fn = "clear_leds" /\ ~result.done
    /\ result' = [NoResult EXCEPT !.done = TRUE, !.buf = ClearFrame(call.arg),
                                  !.cur = ClearLength(call.arg)]
    /\ UNCHANGED <<devVars, call, ppc>>

\* the frame and the length ws2812_write hands to issue_dma when the caller
\* writes call.arg words of zero to a strip of call.arg LEDs
ZeroWrite ==
    /\ call.fn = "ws2812_write" /\ ~result.done
    /\ LET n   == AcceptedLeds(4 * call.arg, call.arg)
           pix == CopyIn([i \in 1 .. call.arg |-> Uninit],
                         [i \in 1 .. n |-> 0], n, n)
       IN  \E enc \in {EncodeFrame(pix, 1, n, call.brightness,
                                    [i \in 1 .. BufferSize(call.arg) |-> Uninit], 0)} :
             result' = [NoResult EXCEPT !.done = TRUE,
                                        !.buf = FillReset(enc.buf, enc.cur),
                                        !.cur = FrameLength(enc.cur)]
    /\ UNCHANGED <<devVars, call, ppc>>

EncNext == Encode \/ ClearAll \/ ZeroWrite

EncSpec == EncInit /\ [][EncNext]_vars

(* ------------------------------ claims -------------------------------- *)
\* the transfer the last operation handed to the DMA engine
LastSubmitted == inflight[Len(inflight)]

\* C1: in every reachable state at most one DMA transfer of the device is
\* mapped or submitted, whatever the order of writes and completions.
C1_AtMostOneTransfer == Len(inflight) <= 1

\* C2: once a write has submitted a transfer, no step taken before that
\* transfer's completion callback has run changes any byte of the frame
\* buffer; after the submitting write its transfer is the newest queued.
C2_BufferStableInFlight ==
    [][(last.op = "write" /\ last.issue = "submitted" /\ inflight # <<>>)
          => buffer' = buffer]_vars

\* C3: when the engine rejects the descriptor after the buffer was mapped,
\* issue_dma releases that mapping before it returns: the mappings
\* outstanding are those that were outstanding before the call.
C3_PrepFailureReleasesMapping ==
    [][(last'.op \in {"write", "probe"} /\ last'.issue = "prep_failed")
          => mappings' = mappings]_vars

\* a write that got past the copy-in and whose dma_map_single returned 0
MapFailedWrite == last'.op = "write" /\ last'.left = 0 /\ dma_addr' = 0

\* a write from the idle device that maps, preps and submits one transfer
SubmittingWrite ==
    \E count \in Counts, a \in Addrs :
      \E data \in [1 .. AcceptedLeds(count, num_leds) -> Pixels] :
        /\ CapOK(a)
        /\ ws2812_write(count, data, AcceptedLeds(count, num_leds), a, TRUE)
        /\ inflight' = <<[addr |-> a, len |-> last'.length]>>
        /\ mappings' = [x \in Addrs |-> IF x = a THEN 1 ELSE 0]

\* C4: a write whose bus-address mapping fails submits nothing and creates
\* no mapping, so an idle device stays idle; and after it a write whose map
\* and submit succeed can run and submits its transfer.
C4_MapFailureLeavesIdle ==
    /\ [][MapFailedWrite =>
            /\ inflight' = inflight
            /\ mappings' = mappings
            /\ last'.issue = "map_failed"
            /\ (Idle => Idle')]_vars
    /\ []((last.op = "write" /\ last.issue = "map_failed" /\ Idle)
            => ENABLED SubmittingWrite)

C4_Witness ==
    last.op = "write" /\ last.issue = "map_failed" /\ last.count >= 4 /\ Idle

\* C5: a completion callback of the live device unmaps with the bus address
\* and the length that the map of the completed transfer used.
C5_UnmapMatchesMap ==
    (last.op = "callback" /\ ~last.freed)
        => (last.uAddr = last.tAddr /\ last.uLen = last.tLen)

\* C6: once ws2812_remove has freed the frame buffer and the device state,
\* no submitted transfer is still in flight.
C6_NoFreeWhileInFlight == phase = "removed" => inflight = <<>>

\* C7: whenever write or clear_leds has submitted a transfer, the last
\* RESET_BYTES bytes of the submitted range of the frame buffer are zero.
C7_ResetTailZero ==
    (last.op \in {"write", "probe"} /\ last.issue = "submitted")
        => \A i \in (LastSubmitted.len - RESET_BYTES + 1) .. LastSubmitted.len :
              buffer[i] = 0

C7_Witness ==
    /\ last.op = "write" /\ last.issue = "submitted"
    /\ LastSubmitted.len > RESET_BYTES
    /\ Len(inflight) > 1

\* min(floor(n / 4), numLeds) for the last write
C8_Accepted ==
    IF last.count \div 4 < num_leds THEN last.count \div 4 ELSE num_leds

\* C8: a write of n bytes encodes min(n / 4, numLeds) pixels and hands the
\* DMA transfer the length accepted * 12 + RESET_BYTES; pixels beyond
\* numLeds are dropped without error, and no pixel gives RESET_BYTES.
C8_AcceptedAndLength ==
    (last.op = "write" /\ last.left = 0) =>
        /\ last.length = C8_Accepted * 12 + RESET_BYTES
        /\ last.issue = "submitted" => LastSubmitted.len = last.length
        /\ \A i \in 1 .. C8_Accepted * 12 : buffer[i] \in {136, 142, 232, 238}
        /\ \A i \in 1 .. RESET_BYTES : buffer[C8_Accepted * 12 + i] = 0
        /\ last.ret >= 0

C8_Witness ==
    /\ last.op = "write" /\ last.issue = "submitted"
    /\ last.count \div 4 > num_leds
    /\ LastSubmitted.len = num_leds * 12 + RESET_BYTES

\* C9: a write whose copy-in fails returns -EFAULT and leaves the frame
\* buffer, the mappings and the channel's queue as they were.
C9_FaultRejectsWrite ==
    [][(last'.op = "write" /\ last'.left # 0) =>
          /\ last'.ret = -14
          /\ buffer' = buffer
          /\ mappings' = mappings
          /\ inflight' = inflight
          /\ dma_addr' = dma_addr]_vars

C9_Witness == last.op = "write" /\ last.left # 0 /\ last.ret < 0

\* C10: a write whose copy-in succeeds returns the caller's byte count,
\* whether the map and the submit succeeded or failed.
C10_ReturnsCount ==
    (last.op = "write" /\ last.left = 0) => last.ret = last.count

C10_Witness ==
    /\ last.op = "write" /\ last.left = 0 /\ last.count > 0
    /\ last.issue \in {"map_failed", "prep_failed"}

\* an application of led_encode that has returned
Encoded == call.fn = "led_encode" /\ result.done

\* C11: for every pixel word and every brightness in 0..255, led_encode
\* appends exactly 12 bytes, the returned cursor being the input cursor
\* plus 12, and each appended byte is one of 0x88, 0x8E, 0xE8, 0xEE.
C11_TwelveNibbleBytes ==
    Encoded =>
        /\ result.cur = call.cur + 12
        /\ \A i \in 1 .. 12 : result.buf[call.cur + i] \in {136, 142, 232, 238}
        /\ \A i \in 1 .. Len(BlankFrame) :
              (i <= call.cur \/ i > call.cur + 12) => result.buf[i] = Uninit

C11_Witness ==
    /\ Encoded /\ call.cur = 12 /\ call.brightness = 128
    /\ call.arg = 90 * 65536 + 255 * 256 - 16777216
    /\ \E i, j \in 13 .. 24 : result.buf[i] # result.buf[j]

\* bits lo .. lo+7 of a pixel word
C12_Bits(rgb, lo) == (rgb \div (2 ^ lo)) % 256

\* the gamma-corrected value of a channel: GammaTable[(c * b) / 255]
C12_Correct(b, c) == GammaE[((c * b) \div 255) + 1]

\* packed = A + (B << 8) + (C << 16) for the call under way
C12_Packed ==
    C12_Correct(call.brightness, C12_Bits(call.arg, 8))
    + C12_Correct(call.brightness, C12_Bits(call.arg, 0)) * 256
    + C12_Correct(call.brightness, C12_Bits(call.arg, 16)) * 65536

\* the fixed table: 00 -> 0x88, 01 -> 0x8E, 10 -> 0xE8, 11 -> 0xEE
C12_Table == <<136, 142, 232, 238>>

\* C12: output byte i (i = 0..11) of led_encode is the table entry for bits
\* 2i..2i+1 of packed = A + (B << 8) + (C << 16), where A, B, C are the
\* gamma-corrected values of input bits 8-15, 0-7 and 16-23; so at
\* brightness 255 pixel 0x000000 gives twelve 0x88 and 0xFFFFFF twelve 0xEE.
C12_PackedLowBitsFirst ==
    Encoded =>
        /\ \A i \in 0 .. 11 :
              result.buf[call.cur + i + 1]
                 = C12_Table[((C12_Packed \div (4 ^ i)) % 4) + 1]
        /\ (call.brightness = 255 /\ call.arg = 0) =>
              \A i \in 1 .. 12 : result.buf[call.cur + i] = 136
        /\ (call.brightness = 255 /\ call.arg = 16777215) =>
              \A i \in 1 .. 12 : result.buf[call.cur + i] = 238

C12_Witness ==
    /\ Encoded /\ call.brightness = 200 /\ call.cur = 0
    /\ call.arg = 255 * 65536 + 90 * 256
    /\ \E i \in 1 .. 4 : result.buf[i] # 136
    /\ \E i \in 9 .. 12 : result.buf[i] # 136

\* an application of gamma_ that has returned
Corrected == call.fn = "gamma_" /\ result.done

\* C13: for every brightness in 0..255 and all channel values c <= c' in
\* 0..255, correct(brightness, c) <= correct(brightness, c'), where
\* correct(b, c) = GammaTable[(c * b) / 255] with truncating division.
C13_GammaMonotone ==
    Corrected =>
        /\ result.val = GammaE[((call.arg * call.brightness) \div 255) + 1]
        /\ \A c2 \in call.arg .. 255 :
              result.val <= gamma_(call.brightness, c2)

C13_Witness ==
    /\ Corrected /\ call.brightness = 200 /\ call.arg = 100
    /\ result.val > 0
    /\ result.val < gamma_(200, 255)

\* C14: for every channel value c in 0..255, correct(255, c) is GammaTable[c]
\* and correct(0, c) is 0; the table index (c * brightness) / 255 is always
\* within 0..255.
C14_GammaEndpointsAndRange ==
    Corrected =>
        /\ call.brightness = 255 => result.val = GammaE[call.arg + 1]
        /\ call.brightness = 0 => result.val = 0
        /\ result.index \in 0 .. 255
        /\ result.index < Len(GammaE)

C14_Witness ==
    /\ Corrected /\ call.brightness = 255 /\ call.arg = 255
    /\ result.index = 255 /\ result.val = 255

\* a write or a probe that built a frame and handed it to issue_dma
BuiltFrame ==
    \/ last.op = "write" /\ last.left = 0
    \/ last.op = "probe" /\ last.ret = 0

\* pixels in the frame the last operation built
FramePixels == IF last.op = "probe" THEN num_leds ELSE C8_Accepted

\* C15 as stated: the reset gap appended to every frame is 40 bytes, and
\* the frame buffer allocated by probe has length numLeds * 12 + 40.
C15_ResetGapForty ==
    /\ phase = "live" => Len(buffer) = num_leds * 12 + 40
    /\ BuiltFrame => last.length = FramePixels * 12 + 40

\* C15, amended: the reset gap appended to every frame is 15 bytes (50us of
\* 2.4 MHz bits, eight to the byte), and the frame buffer allocated by
\* probe has length numLeds * 12 + 15.
C15_ResetGapFifteen ==
    /\ phase = "live" => Len(buffer) = num_leds * 12 + 15
    /\ BuiltFrame =>
          /\ last.length = FramePixels * 12 + 15
          /\ \A i \in 1 .. 15 : buffer[FramePixels * 12 + i] = 0

C15_Witness ==
    /\ phase = "live" /\ last.op = "write" /\ last.issue = "submitted"
    /\ num_leds = 1 /\ Len(buffer) = 27
    /\ LastSubmitted.len = 27

\* C16: once every submitted transfer has had its completion callback, no
\* mapping is outstanding: each successful map was matched by one unmap and
\* the device is Idle again, whatever writes, overlapping or failing, ran.
C16_CompletedMeansUnmapped == inflight = <<>> => MapTotal = 0

\* what attach does to make the device ready for a transfer
AttachItems == {"pixbuf", "buffer", "slave_config", "pwm_init", "clear_leds"}

\* C17: a write runs only after attach has allocated the staging buffer and
\* the frame buffer, configured the DMA channel, programmed the peripheral
\* registers and issued the clear-all transfer.
C17_WriteOnlyAfterAttach ==
    last.op = "write" => \A s \in AttachItems : StepDone(s)

\* C18: when ws2812_probe fails it reports failure and has released each
\* resource it had acquired exactly once: nothing is released twice,
\* nothing never acquired is released, and nothing is left held.
C18_FailedProbeReleasesOnce ==
    phase = "failed" =>
        /\ last.op = "probe" /\ last.ret < 0
        /\ \A r \in Resources : held[r] = 0

\* a whole frame built on its own, by clear_leds or by a write of zeros
FrameBuilt == call.fn \in {"clear_leds", "ws2812_write"} /\ result.done

\* C19: for every numLeds and every brightness, clear_leds fills the frame
\* buffer with the same bytes and passes the same length as a write of
\* numLeds zero pixels: numLeds * 12 bytes of 0x88, then RESET_BYTES zero
\* bytes, length numLeds * 12 + RESET_BYTES.
C19_ClearEqualsZeroFrame ==
    FrameBuilt =>
        /\ result.cur = call.arg * 12 + RESET_BYTES
        /\ Len(result.buf) = result.cur
        /\ \A i \in 1 .. result.cur :
              result.buf[i] = IF i <= call.arg * 12 THEN 136 ELSE 0

C19_Witness ==
    /\ FrameBuilt /\ call.fn = "clear_leds"
    /\ call.arg = MaxFrameLeds /\ call.brightness = 128
    /\ result.buf[call.arg * 12] = 136

\* C20: at full brightness, encoding the pixel value 0xff0000 yields the
\* words 0xeeeeeeee, 0x88888888, 0x88888888 in that order: the first four
\* emitted bytes are 0xEE and the remaining eight are 0x88.
C20_RedWordFirst ==
    (Encoded /\ call.brightness = 255 /\ call.arg = 255 * 65536) =>
        /\ \A i \in 1 .. 4 : result.buf[call.cur + i] = 238
        /\ \A i \in 5 .. 12 : result.buf[call.cur + i] = 136

\* the last operation stored nothing beyond the end of the staging area and
\* of the frame buffer as they are allocated, and no queued transfer is
\* longer than the frame buffer
WithinAllocated ==
    /\ last.op \in {"write", "probe"} =>
          /\ last.pixEnd <= 4 * Len(pixbuf)
          /\ last.bufEnd <= Len(buffer)
          /\ last.length <= Len(buffer)
    /\ \A i \in 1 .. Len(inflight) : inflight[i].len <= Len(buffer)

\* C21: for any caller byte count and any sequence of writes and clear_leds
\* calls, no byte is written outside the frame buffer's num_leds * 12 +
\* RESET_BYTES bytes nor outside the staging area's num_leds * 4 bytes, and
\* every DMA transfer length is at most num_leds * 12 + RESET_BYTES.
C21_WritesWithinBuffers ==
    /\ WithinAllocated
    /\ last.op \in {"write", "probe"} =>
          /\ last.pixEnd <= num_leds * 4
          /\ last.bufEnd <= num_leds * 12 + RESET_BYTES
    /\ \A i \in 1 .. Len(inflight) :
          inflight[i].len <= num_leds * 12 + RESET_BYTES

====
